---- MODULE Spec2Model ----
(***************************************************************************)
(* Dynamic-insertion workflow of the VRP testing dashboard                 *)
(* (static/js/vrp_testing.js), the checkpoint editor                       *)
(* (static/js/checkpoints.js) and the map picker (static/js/map_picker.js):*)
(* the module-level state of each page, the operator's clicks, and the     *)
(* completion callbacks of the fetch() calls.                              *)
(* JavaScript runs each handler to completion, so every handler and every  *)
(* promise callback chain is one atomic action; what is concurrent is the  *)
(* set of requests in flight, whose responses arrive in any order.         *)
(***************************************************************************)
EXTENDS Integers, Sequences, FiniteSets, TLC

(* ---------------------------------------------------------------- bounds *)

\* fetch('/vrp_testing/process_dynamic_pair') calls issued in one behaviour
MaxResolve == 2
\* fetch('/vrp_testing/insert_dynamic') calls issued in one behaviour
MaxInsert == 2
\* run_test and test_result calls issued in one behaviour
MaxTests == 2
\* requests issued in one behaviour over all endpoints, a test counted twice
MaxLoad == 6

(* ------------------------------------------------------- values and inputs *)

\* JavaScript null
NULL == [null |-> TRUE]

\* JavaScript undefined, for the optional fields of test_info
UNDEFINED == "undefined"

\* e.latlng of a map click
Points == { [lat |-> 1, lng |-> 1], [lat |-> 2, lng |-> 2] }

SnapshotIds == { "s1" }

PresetIds == { "p1" }

TestTypes == { "static", "dynamic" }

\* the demand clusters of the snapshot the tests run on
ActiveClusters == { 1, 2 }

\* a stop of route.stops as the backend sends it
CheckpointStop(at, served) ==
    [type |-> "checkpoint", is_dynamic |-> FALSE, lat |-> at, lon |-> at,
     clusters_served |-> served]

DynamicStop(kind, at) ==
    [type |-> kind, is_dynamic |-> TRUE, lat |-> at, lon |-> at,
     clusters_served |-> <<>>]

\* the depot, first and last point of route.path
Warehouse == [type |-> "warehouse", lat |-> 0, lon |-> 0]

\* a route as the backend sends it: its stops, and its path from and to the depot
Route(stops) ==
    [stops |-> stops, path |-> << Warehouse >> \o stops \o << Warehouse >>]

\* two vehicles, one cluster each
SolTwoRoutes ==
    [routes |-> << Route(<< CheckpointStop(1, <<1>>) >>),
                   Route(<< CheckpointStop(2, <<2>>) >>) >>,
     missing_clusters |-> <<>>]

\* cluster 2 is neither served nor listed as missing
SolUncovered ==
    [routes |-> << Route(<< CheckpointStop(1, <<1>>) >>) >>,
     missing_clusters |-> <<>>]

\* a route after an insertion at position 0: it starts with the dynamic stops
SolInserted ==
    [routes |-> << Route(<< DynamicStop("pickup", 3), DynamicStop("dropoff", 4),
                            CheckpointStop(1, <<1, 2>>) >>) >>,
     missing_clusters |-> <<>>]

\* the solutions a response may carry
Solutions == { SolTwoRoutes, SolUncovered, SolInserted }

\* L.map('test-map')
TheMap == [container |-> "test-map"]

\* data.result.test_info of a stored test: complete, without its snapshot and
\* preset, or absent altogether
TestInfos ==
    { [snapshot_id |-> "s1", preset_id |-> "p2", algorithm |-> "or_tools",
       test_type |-> "dynamic"],
      [snapshot_id |-> UNDEFINED, preset_id |-> UNDEFINED, algorithm |-> "or_tools",
       test_type |-> "dynamic"],
      [snapshot_id |-> UNDEFINED, preset_id |-> UNDEFINED, algorithm |-> UNDEFINED,
       test_type |-> UNDEFINED] }

\* data.status of an answer: 'success', an error status, no status field at all,
\* or a value that is none of the statuses of the API
ResponseStatuses == { "success", "error", UNDEFINED, "SUCCESS" }

\* the branch the callbacks take on an answer: if (data.status === 'success') ... else ...
statusBranch(status) ==
    IF status = "success" THEN "success" ELSE "error"

\* how a fetch() ends: data.status 'success', any other data.status, or a
\* rejected promise
Outcomes == { statusBranch(status) : status \in ResponseStatuses } \cup { "network_error" }

(* ------------------------------------------------------------------ state *)

VARIABLES
    dynamicPickingState,        \* 'idle' | 'picking_pickup' | 'picking_dropoff'
    tempPickupCoords,
    tempDropoffCoords,
    tempPickupMarker,           \* NULL or the position the marker shows
    tempDropoffMarker,
    dynamicLocationPairs,       \* the backlog of processed pairs
    currentDynamicMapInstance,  \* NULL or the Leaflet map on #test-map
    currentVrpSolution,
    currentTestConfig,
    dynamicSectionHidden,       \* #dynamic-section has class 'hidden'
    mapClickBound,              \* handleDynamicMapClick is bound to the map
    insertBtn,                  \* #insert-dynamic-btn: "absent" | "enabled" | "disabled"
    targetVehicleSelect,        \* value of #target-vehicle-select
    insertionPointSelect,       \* value of #insertion-point-select
    insertionPointOptions,      \* option values of #insertion-point-select
    runBtnDisabled,             \* #run-test-submit is disabled
    resolveInFlight,            \* process_dynamic_pair requests without a response yet
    insertInFlight,             \* insert_dynamic requests without a response yet
    testInFlight,               \* run_test / test_result requests without a response yet
    nResolve, nInsert, nTests,  \* requests issued so far, by endpoint
    lastEvent                   \* the handler that ran last, and its input

pickingVars == << dynamicPickingState, tempPickupCoords, tempDropoffCoords,
                  tempPickupMarker, tempDropoffMarker >>

controlVars == << insertBtn, targetVehicleSelect, insertionPointSelect,
                  insertionPointOptions >>

displayVars == << dynamicLocationPairs, currentDynamicMapInstance,
                  dynamicSectionHidden, mapClickBound >>

netVars == << resolveInFlight, insertInFlight, testInFlight,
              nResolve, nInsert, nTests >>

\* the state of the testing dashboard, without the ghost lastEvent
vrpVars == << pickingVars, controlVars, displayVars, netVars,
              currentVrpSolution, currentTestConfig, runBtnDisabled >>

\* the checkpoint editor of the clustering page (static/js/checkpoints.js)
VARIABLES
    globalE,                    \* the page's global scope defines a name e
    selectedClusterId,          \* _selectedClusterId: NoCluster or a cluster id
    editMode,                   \* _editMode
    checkpointMarkers,          \* _checkpointMarkers, in display order
    saveBtn,                    \* #save-checkpoints-btn: its display style, disabled
    saveListeners,              \* click listeners of #save-checkpoints-btn
    editClickBound,             \* handleMapClick is bound to the cluster map
    checkpointInFlight,         \* load / save requests without a response yet
    nCheckpointRequests         \* requests issued so far by the checkpoint editor

checkpointVars == << globalE, selectedClusterId, editMode, checkpointMarkers,
                     saveBtn, saveListeners, editClickBound, checkpointInFlight,
                     nCheckpointRequests >>

\* the map picker (static/js/map_picker.js)
VARIABLES
    locationMode,               \* 'warehouse' | 'destination'
    warehouse,                  \* NULL or the warehouse coordinate (and its marker)
    destinations,               \* the destinations array
    destinationMarkers,         \* the destinationMarkers array
    verifyInFlight,             \* verifyLocation() promises not settled yet
    presetInFlight,             \* get_preset requests without a response yet
    nVerify, nPresets,          \* verifications / preset requests issued so far
    lastApply                   \* ghost: the preset applied last, NULL after an edit

pickerVars == << locationMode, warehouse, destinations, destinationMarkers,
                 verifyInFlight, presetInFlight, nVerify, nPresets, lastApply >>

\* the pages are separate documents: a handler of one never touches another's state
vars == << vrpVars, lastEvent, checkpointVars, pickerVars >>

\* type: the handler; status: the outcome of the request it answers, or for a
\* click what the handler found and did
Event(type, status) ==
    [type |-> type, status |-> status]

\* the requests issued so far, a test counted twice: together with the bounds per
\* endpoint it keeps a behaviour to two tests with one pair inserted, or to two
\* pairs and two insertions into one test
Load == nTests + nTests + nResolve + nInsert

\* the module-level declarations of vrp_testing.js
vrpTestingInit ==
    /\ dynamicPickingState = "idle"
    /\ tempPickupCoords = NULL
    /\ tempDropoffCoords = NULL
    /\ tempPickupMarker = NULL
    /\ tempDropoffMarker = NULL
    /\ dynamicLocationPairs = <<>>
    /\ currentDynamicMapInstance = NULL
    /\ currentVrpSolution = NULL
    /\ currentTestConfig = NULL
    /\ dynamicSectionHidden = TRUE
    /\ mapClickBound = FALSE
    /\ insertBtn = "absent"
    /\ targetVehicleSelect = 0
    /\ insertionPointSelect = 0
    /\ insertionPointOptions = {}
    /\ runBtnDisabled = FALSE
    /\ resolveInFlight = {}
    /\ insertInFlight = {}
    /\ testInFlight = {}
    /\ nResolve = 0
    /\ nInsert = 0
    /\ nTests = 0
    /\ lastEvent = Event("load", "")

\* _selectedClusterId = null
NoCluster == "none"

\* the declarations of the CheckpointManager closure, after initialize() has
\* bound the buttons; e: whether the page defines a global e
checkpointsInit(e) ==
    /\ globalE = e
    /\ selectedClusterId = NoCluster
    /\ editMode = FALSE
    /\ checkpointMarkers = <<>>
    /\ saveBtn = [display |-> "", disabled |-> FALSE]
    /\ saveListeners = 1
    /\ editClickBound = FALSE
    /\ checkpointInFlight = {}
    /\ nCheckpointRequests = 0

\* the module-level declarations of map_picker.js
mapPickerInit ==
    /\ locationMode = "destination"
    /\ warehouse = NULL
    /\ destinations = <<>>
    /\ destinationMarkers = <<>>
    /\ verifyInFlight = {}
    /\ presetInFlight = {}
    /\ nVerify = 0
    /\ nPresets = 0
    /\ lastApply = NULL

Init ==
    /\ vrpTestingInit
    /\ checkpointsInit(FALSE)
    /\ mapPickerInit

(* ------------------------------------------------- rendering the solution *)

\* a coverage loop that looks at the first route only
clusterCoverage_firstRoute(solution) ==
    LET entries ==
            UNION { { [clusterId |-> solution.routes[1].stops[k].clusters_served[i],
                       routeIdx |-> 0,
                       lat |-> solution.routes[1].stops[k].lat,
                       lon |-> solution.routes[1].stops[k].lon] :
                      i \in DOMAIN solution.routes[1].stops[k].clusters_served } :
                    k \in DOMAIN solution.routes[1].stops }
    IN  [c \in { e.clusterId : e \in entries } |->
            { [routeIdx |-> e.routeIdx, lat |-> e.lat, lon |-> e.lon] :
                e \in { x \in entries : x.clusterId = c } }]

\* clusterCoverage of displayTestResults: for each cluster id found in the
\* clusters_served of a stop, the stops that list it, with their route
clusterCoverage(solution) ==
    LET entries ==
            UNION { UNION { { [clusterId |-> solution.routes[r].stops[k].clusters_served[i],
                               routeIdx |-> r - 1,
                               lat |-> solution.routes[r].stops[k].lat,
                               lon |-> solution.routes[r].stops[k].lon] :
                              i \in DOMAIN solution.routes[r].stops[k].clusters_served } :
                            k \in DOMAIN solution.routes[r].stops } :
                    r \in DOMAIN solution.routes }
    IN  [c \in { e.clusterId : e \in entries } |->
            { [routeIdx |-> e.routeIdx, lat |-> e.lat, lon |-> e.lon] :
                e \in { x \in entries : x.clusterId = c } }]

\* displayTestResults: the routes are drawn and listed as checkpoint routes
isCheckpointRoute(solution, testType) ==
    \/ testType \in { "checkpoints", "dynamic" }
    \/ /\ Len(solution.routes) > 0
       /\ Len(solution.routes[1].stops) > 0
       /\ solution.routes[1].stops[1].type = "checkpoint"

\* the line of the stop sequence listing for a stop of route.stops: every stop of a
\* checkpoint route is listed as "CP @ (lat, lon) - Serves: ..."
stopSequenceItem(stop, checkpointRoute) ==
    IF checkpointRoute THEN "CP" ELSE "Destination"

\* displayRouteOnMap: the marker drawn for a stop
markerKind(stop, checkpointRoute) ==
    IF stop.is_dynamic /\ stop.type \in { "pickup", "dropoff" }
    THEN "dynamic"
    ELSE IF checkpointRoute THEN "checkpoint" ELSE "destination"

\* populateInsertionPoints: the label of the options after the stops of `route`,
\* decided by the type of its first stop
insertionPointLabel(route) ==
    IF Len(route.stops) > 0 /\ route.stops[1].type = "checkpoint"
    THEN "Checkpoint" ELSE "Destination"

\* options built from the whole path of a route that does not start with a
\* checkpoint, the depot at both ends included
populateInsertionPoints_wholePath(vehicleIndex, solution) ==
    IF solution = NULL \/ (vehicleIndex + 1) \notin DOMAIN solution.routes
    THEN [options |-> { -1 }, value |-> -1]
    ELSE LET route == solution.routes[vehicleIndex + 1]
             isCheckpoint == Len(route.stops) > 0 /\ route.stops[1].type = "checkpoint"
             stops == IF isCheckpoint THEN route.stops ELSE route.path
         IN  [options |-> 0 .. Len(stops), value |-> 0]

\* the options of #insertion-point-select, and the value the select shows
populateInsertionPoints(vehicleIndex, solution) ==
    IF solution = NULL \/ (vehicleIndex + 1) \notin DOMAIN solution.routes
    THEN [options |-> { -1 }, value |-> -1]
    ELSE LET route == solution.routes[vehicleIndex + 1]
             isCheckpoint == Len(route.stops) > 0 /\ route.stops[1].type = "checkpoint"
             stops == IF isCheckpoint
                      THEN route.stops
                      ELSE SubSeq(route.path, 2, Len(route.path) - 1)
         IN  [options |-> 0 .. Len(stops), value |-> 0]

\* the insertion controls rebuilt for `solution`, with `pairs` the backlog at the call
setupDynamicInsertionUI(solution, pairs) ==
    IF solution = NULL \/ Len(solution.routes) = 0
    THEN [insertBtn |-> "absent", targetVehicleSelect |-> 0,
          insertionPointSelect |-> 0, insertionPointOptions |-> {}]
    ELSE LET points == populateInsertionPoints(0, solution)
         IN  [insertBtn |-> IF Len(pairs) = 0 THEN "disabled" ELSE "enabled",
              targetVehicleSelect |-> 0,
              insertionPointSelect |-> points.value,
              insertionPointOptions |-> points.options]

\* the page state displayTestResults leaves: the backlog reset, a fresh map, and
\* for a dynamic test the picking handlers bound and the insertion controls rebuilt
displayTestResults(solution, testType) ==
    LET ui == IF testType = "dynamic"
              THEN setupDynamicInsertionUI(solution, <<>>)
              ELSE [insertBtn |-> insertBtn, targetVehicleSelect |-> targetVehicleSelect,
                    insertionPointSelect |-> insertionPointSelect,
                    insertionPointOptions |-> insertionPointOptions]
    IN  [dynamicLocationPairs |-> <<>>,
         currentDynamicMapInstance |-> TheMap,
         dynamicSectionHidden |-> (testType # "dynamic"),
         mapClickBound |-> (testType = "dynamic"),
         ui |-> ui]

\* the assignments of a handler that ends by displaying `d`
Displayed(d) ==
    /\ dynamicLocationPairs' = d.dynamicLocationPairs
    /\ currentDynamicMapInstance' = d.currentDynamicMapInstance
    /\ dynamicSectionHidden' = d.dynamicSectionHidden
    /\ mapClickBound' = d.mapClickBound
    /\ insertBtn' = d.ui.insertBtn
    /\ targetVehicleSelect' = d.ui.targetVehicleSelect
    /\ insertionPointSelect' = d.ui.insertionPointSelect
    /\ insertionPointOptions' = d.ui.insertionPointOptions

(* ------------------------------------------------ running and viewing tests *)

\* click on #run-test-submit
runTest(snapshotId, presetId, testType) ==
    /\ UNCHANGED << checkpointVars, pickerVars >>
    /\ ~runBtnDisabled
    /\ nTests < MaxTests
    /\ Load + 2 <= MaxLoad
    /\ runBtnDisabled' = TRUE
    /\ insertBtn' = "absent"
    /\ targetVehicleSelect' = 0
    /\ insertionPointSelect' = 0
    /\ insertionPointOptions' = {}
    /\ nTests' = nTests + 1
    /\ testInFlight' = testInFlight \cup
           { [rid |-> nTests + 1, url |-> "run_test",
              requestData |-> [snapshot_id |-> snapshotId, preset_id |-> presetId,
                               algorithm |-> "or_tools", test_type |-> testType]] }
    /\ lastEvent' = Event("runTest", "")
    /\ UNCHANGED << pickingVars, displayVars, currentVrpSolution, currentTestConfig,
                    resolveInFlight, insertInFlight, nResolve, nInsert >>

\* the callbacks of runTest's fetch: .then on data.status, .catch, .finally
runTestResponse(req, outcome, solution) ==
    /\ UNCHANGED << checkpointVars, pickerVars >>
    /\ req \in testInFlight
    /\ req.url = "run_test"
    /\ testInFlight' = testInFlight \ { req }
    /\ runBtnDisabled' = FALSE
    /\ lastEvent' = Event("runTestResponse", outcome)
    /\ IF outcome = "success"
       THEN /\ currentVrpSolution' = solution
            /\ currentTestConfig' = req.requestData
            /\ Displayed(displayTestResults(solution, req.requestData.test_type))
       ELSE UNCHANGED << currentVrpSolution, currentTestConfig, displayVars, controlVars >>
    /\ UNCHANGED << pickingVars, resolveInFlight, insertInFlight,
                    nResolve, nInsert, nTests >>

\* click on a View button of the test history
viewTest ==
    /\ UNCHANGED << checkpointVars, pickerVars >>
    /\ nTests < MaxTests
    /\ Load + 2 <= MaxLoad
    /\ nTests' = nTests + 1
    /\ testInFlight' = testInFlight \cup { [rid |-> nTests + 1, url |-> "test_result"] }
    /\ lastEvent' = Event("viewTest", "")
    /\ UNCHANGED << pickingVars, controlVars, displayVars, currentVrpSolution,
                    currentTestConfig, runBtnDisabled,
                    resolveInFlight, insertInFlight, nResolve, nInsert >>

\* the callbacks of viewTest's fetch
viewTestResponse(req, outcome, result, test_info) ==
    /\ UNCHANGED << checkpointVars, pickerVars >>
    /\ req \in testInFlight
    /\ req.url = "test_result"
    /\ testInFlight' = testInFlight \ { req }
    /\ lastEvent' = Event("viewTestResponse", outcome)
    /\ IF outcome = "success"
       THEN LET testType == IF test_info.test_type = UNDEFINED
                            THEN "static" ELSE test_info.test_type
            IN  /\ currentVrpSolution' = result
                /\ currentTestConfig' = [test_info EXCEPT !.test_type = testType]
                /\ Displayed(displayTestResults(result, testType))
       ELSE UNCHANGED << currentVrpSolution, currentTestConfig, displayVars, controlVars >>
    /\ UNCHANGED << pickingVars, runBtnDisabled, resolveInFlight, insertInFlight,
                    nResolve, nInsert, nTests >>

(* ------------------------------------------------------- picking a new pair *)

\* resetPickingState without the lines that clear the pickup half
resetPickingState_keepsPickup ==
    /\ dynamicPickingState' = "idle"
    /\ tempDropoffCoords' = NULL
    /\ tempDropoffMarker' = NULL
    /\ UNCHANGED << tempPickupCoords, tempPickupMarker >>

\* back to 'idle': the half-built pair and its temporary markers are dropped
resetPickingState ==
    /\ dynamicPickingState' = "idle"
    /\ tempPickupCoords' = NULL
    /\ tempDropoffCoords' = NULL
    /\ tempPickupMarker' = NULL
    /\ tempDropoffMarker' = NULL

\* addPairBtn.onclick: "Add New Location Pair" when idle, "Cancel Picking" otherwise
addPairBtnClick ==
    /\ UNCHANGED << checkpointVars, pickerVars >>
    /\ ~dynamicSectionHidden
    /\ IF dynamicPickingState = "idle"
       THEN /\ dynamicPickingState' = "picking_pickup"
            /\ UNCHANGED << tempPickupCoords, tempDropoffCoords,
                            tempPickupMarker, tempDropoffMarker >>
            /\ lastEvent' = Event("startPicking", dynamicPickingState)
       ELSE /\ resetPickingState
            /\ lastEvent' = Event("cancel", dynamicPickingState)
    /\ UNCHANGED << controlVars, displayVars, netVars, currentVrpSolution,
                    currentTestConfig, runBtnDisabled >>

\* the request of processNewPair, or none without a snapshot and preset to name
processNewPair(pickupCoords, dropoffCoords) ==
    LET snapshotId == IF currentTestConfig = NULL THEN UNDEFINED
                      ELSE currentTestConfig.snapshot_id
        presetId == IF currentTestConfig = NULL THEN UNDEFINED
                    ELSE currentTestConfig.preset_id
    IN  IF snapshotId = UNDEFINED \/ presetId = UNDEFINED
        THEN UNCHANGED << resolveInFlight, nResolve >>
        ELSE /\ nResolve' = nResolve + 1
             /\ resolveInFlight' = resolveInFlight \cup
                    { [rid |-> nResolve + 1,
                       pickup_lat |-> pickupCoords.lat, pickup_lon |-> pickupCoords.lng,
                       dropoff_lat |-> dropoffCoords.lat, dropoff_lon |-> dropoffCoords.lng,
                       snapshot_id |-> snapshotId, preset_id |-> presetId] }

\* a click on the map while the click handler is bound to it
handleDynamicMapClick(latlng) ==
    /\ UNCHANGED << checkpointVars, pickerVars >>
    /\ mapClickBound
    /\ currentDynamicMapInstance # NULL
    /\ dynamicPickingState = "picking_dropoff" =>
          nResolve < MaxResolve /\ Load + 1 <= MaxLoad
    /\ CASE dynamicPickingState = "picking_pickup" ->
              /\ tempPickupCoords' = latlng
              /\ tempPickupMarker' = [latlng |-> latlng]
              /\ dynamicPickingState' = "picking_dropoff"
              /\ lastEvent' = Event("pointSelected", dynamicPickingState)
              /\ UNCHANGED << tempDropoffCoords, tempDropoffMarker,
                              resolveInFlight, nResolve >>
         [] dynamicPickingState = "picking_dropoff" ->
              /\ processNewPair(tempPickupCoords, latlng)
              /\ resetPickingState
              /\ lastEvent' = Event("pointSelected", dynamicPickingState)
         [] OTHER -> UNCHANGED << pickingVars, resolveInFlight, nResolve, lastEvent >>
    /\ UNCHANGED << controlVars, displayVars, currentVrpSolution, currentTestConfig,
                    runBtnDisabled, insertInFlight, testInFlight, nInsert, nTests >>

\* the backend's answer for one position of the snapshot: the cluster that owns it
\* and the checkpoints that reach the cluster, none for the second position
ResolvedSide(lat, lon) ==
    [lat |-> lat, lon |-> lon, cluster_id |-> lat,
     checkpoints |-> IF lat = 1 THEN << [id |-> 1], [id |-> 2] >> ELSE <<>>]

\* data.pair_info of a successful answer to `req`
PairInfo(req) ==
    [pickup |-> ResolvedSide(req.pickup_lat, req.pickup_lon),
     dropoff |-> ResolvedSide(req.dropoff_lat, req.dropoff_lon)]

\* a success callback that stores the pair on both of two code paths
pushPair_twice(pairs, pair_info) ==
    Append(Append(pairs, pair_info), pair_info)

\* a success callback that gives a side without candidates a checkpoint of its own
pushPair_fabricates(pairs, pair_info) ==
    LET filled(side) == IF Len(side.checkpoints) = 0
                        THEN [side EXCEPT !.checkpoints = << [id |-> 0] >>]
                        ELSE side
    IN  Append(pairs, [pickup |-> filled(pair_info.pickup),
                       dropoff |-> filled(pair_info.dropoff)])

\* dynamicLocationPairs.push(data.pair_info)
pushPair(pairs, pair_info) ==
    Append(pairs, pair_info)

\* the callbacks of processNewPair's fetch
processNewPairResponse(req, outcome, pair_info) ==
    /\ UNCHANGED << checkpointVars, pickerVars >>
    /\ req \in resolveInFlight
    /\ resolveInFlight' = resolveInFlight \ { req }
    /\ lastEvent' = Event("processNewPairResponse", outcome)
    /\ IF outcome = "success"
       THEN /\ dynamicLocationPairs' = pushPair(dynamicLocationPairs, pair_info)
            /\ insertBtn' = IF insertBtn = "absent" THEN "absent" ELSE "enabled"
       ELSE UNCHANGED << dynamicLocationPairs, insertBtn >>
    /\ UNCHANGED << pickingVars, targetVehicleSelect, insertionPointSelect,
                    insertionPointOptions, currentDynamicMapInstance,
                    dynamicSectionHidden, mapClickBound, currentVrpSolution,
                    currentTestConfig, runBtnDisabled, insertInFlight, testInFlight,
                    nResolve, nInsert, nTests >>

(* ------------------------------------------------------ inserting the pairs *)

\* change of #target-vehicle-select, a <select> when there are several routes
selectVehicle(vehicleIndex) ==
    /\ UNCHANGED << checkpointVars, pickerVars >>
    /\ ~dynamicSectionHidden
    /\ insertBtn = "enabled"
    /\ currentVrpSolution # NULL
    /\ Len(currentVrpSolution.routes) > 1
    /\ vehicleIndex \in 0 .. Len(currentVrpSolution.routes) - 1
    /\ vehicleIndex # targetVehicleSelect
    /\ targetVehicleSelect' = vehicleIndex
    /\ LET points == populateInsertionPoints(vehicleIndex, currentVrpSolution)
       IN  /\ insertionPointSelect' = points.value
           /\ insertionPointOptions' = points.options
    /\ lastEvent' = Event("selectVehicle", "")
    /\ UNCHANGED << pickingVars, displayVars, netVars, insertBtn, currentVrpSolution,
                    currentTestConfig, runBtnDisabled >>

\* the operator picks another option of #insertion-point-select
selectInsertionPoint(value) ==
    /\ UNCHANGED << checkpointVars, pickerVars >>
    /\ ~dynamicSectionHidden
    /\ insertBtn = "enabled"
    /\ value \in insertionPointOptions
    /\ value # insertionPointSelect
    /\ insertionPointSelect' = value
    /\ lastEvent' = Event("selectInsertionPoint", "")
    /\ UNCHANGED << pickingVars, displayVars, netVars, insertBtn, targetVehicleSelect,
                    insertionPointOptions, currentVrpSolution, currentTestConfig,
                    runBtnDisabled >>

\* a request that leaves out the pairs with a side that has no candidate checkpoint
InsertionRequest_onlyServedPairs(targetVehicleIndex, insertionPointIndex) ==
    [current_solution |-> currentVrpSolution,
     prepared_data_ref |-> [snapshot_id |-> currentTestConfig.snapshot_id,
                            preset_id |-> currentTestConfig.preset_id],
     new_location_pairs |->
         SelectSeq(dynamicLocationPairs,
                   LAMBDA pair : /\ Len(pair.pickup.checkpoints) > 0
                                 /\ Len(pair.dropoff.checkpoints) > 0),
     target_vehicle_index |-> targetVehicleIndex,
     insertion_point_index |-> insertionPointIndex,
     algorithm |-> IF currentTestConfig.algorithm = UNDEFINED
                   THEN "or_tools" ELSE currentTestConfig.algorithm]

\* a request that always names the first vehicle and the start of its route
InsertionRequest_ignoresSelection(targetVehicleIndex, insertionPointIndex) ==
    [current_solution |-> currentVrpSolution,
     prepared_data_ref |-> [snapshot_id |-> currentTestConfig.snapshot_id,
                            preset_id |-> currentTestConfig.preset_id],
     new_location_pairs |-> dynamicLocationPairs,
     target_vehicle_index |-> 0,
     insertion_point_index |-> 0,
     algorithm |-> IF currentTestConfig.algorithm = UNDEFINED
                   THEN "or_tools" ELSE currentTestConfig.algorithm]

\* the body of the insert_dynamic request built from the page state
InsertionRequest(targetVehicleIndex, insertionPointIndex) ==
    [current_solution |-> currentVrpSolution,
     prepared_data_ref |-> [snapshot_id |-> currentTestConfig.snapshot_id,
                            preset_id |-> currentTestConfig.preset_id],
     new_location_pairs |-> dynamicLocationPairs,
     target_vehicle_index |-> targetVehicleIndex,
     insertion_point_index |-> insertionPointIndex,
     algorithm |-> IF currentTestConfig.algorithm = UNDEFINED
                   THEN "or_tools" ELSE currentTestConfig.algorithm]

\* click on #insert-dynamic-btn
handleDynamicInsertion ==
    /\ UNCHANGED << checkpointVars, pickerVars >>
    /\ ~dynamicSectionHidden
    /\ insertBtn = "enabled"
    /\ nInsert < MaxInsert
    /\ Load + 1 <= MaxLoad
    /\ IF \/ Len(dynamicLocationPairs) = 0
          \/ currentVrpSolution = NULL
          \/ currentTestConfig = NULL
       THEN /\ lastEvent' = Event("handleDynamicInsertion", "rejected")
            /\ UNCHANGED << insertBtn, insertInFlight, nInsert >>
       ELSE /\ insertBtn' = "disabled"
            /\ nInsert' = nInsert + 1
            /\ insertInFlight' = insertInFlight \cup
                   { [rid |-> nInsert + 1,
                      requestData |-> InsertionRequest(targetVehicleSelect,
                                                       insertionPointSelect)] }
            /\ lastEvent' = Event("handleDynamicInsertion", "sent")
    /\ UNCHANGED << pickingVars, displayVars, targetVehicleSelect, insertionPointSelect,
                    insertionPointOptions, currentVrpSolution, currentTestConfig,
                    runBtnDisabled, resolveInFlight, testInFlight, nResolve, nTests >>

\* #insert-dynamic-btn after the .finally of the insertion: disabled iff `pairs` is empty
finalInsertBtn(btn, pairs) ==
    IF btn = "absent" THEN "absent"
    ELSE IF Len(pairs) = 0 THEN "disabled" ELSE "enabled"

\* callbacks whose failure paths empty the routes of the solution they keep
handleDynamicInsertionResponse_editsInPlace(req, outcome, updated_solution) ==
    /\ UNCHANGED << checkpointVars, pickerVars >>
    /\ req \in insertInFlight
    /\ insertInFlight' = insertInFlight \ { req }
    /\ lastEvent' = Event("handleDynamicInsertionResponse", outcome)
    /\ LET d == IF outcome = "success"
                THEN displayTestResults(updated_solution, "dynamic")
                ELSE displayTestResults(currentVrpSolution, "dynamic")
       IN  /\ IF outcome = "success"
              THEN /\ currentVrpSolution' = updated_solution
                   /\ currentTestConfig' =
                          [currentTestConfig EXCEPT !.test_type = "dynamic_updated"]
              ELSE /\ currentVrpSolution' = [currentVrpSolution EXCEPT !.routes = <<>>]
                   /\ UNCHANGED currentTestConfig
           /\ dynamicLocationPairs' =
                  IF outcome = "success" THEN <<>> ELSE d.dynamicLocationPairs
           /\ currentDynamicMapInstance' = d.currentDynamicMapInstance
           /\ dynamicSectionHidden' = d.dynamicSectionHidden
           /\ mapClickBound' = d.mapClickBound
           /\ insertBtn' = finalInsertBtn(d.ui.insertBtn, dynamicLocationPairs')
           /\ targetVehicleSelect' = d.ui.targetVehicleSelect
           /\ insertionPointSelect' = d.ui.insertionPointSelect
           /\ insertionPointOptions' = d.ui.insertionPointOptions
    /\ UNCHANGED << pickingVars, runBtnDisabled, resolveInFlight, testInFlight,
                    nResolve, nInsert, nTests >>

\* callbacks that send a failed request again
handleDynamicInsertionResponse_retries(req, outcome, updated_solution) ==
    /\ UNCHANGED << checkpointVars, pickerVars >>
    /\ req \in insertInFlight
    /\ IF outcome # "success" /\ nInsert < MaxInsert
       THEN /\ nInsert' = nInsert + 1
            /\ insertInFlight' = (insertInFlight \ { req }) \cup
                   { [rid |-> nInsert + 1, requestData |-> req.requestData] }
       ELSE /\ insertInFlight' = insertInFlight \ { req }
            /\ UNCHANGED nInsert
    /\ lastEvent' = Event("handleDynamicInsertionResponse", outcome)
    /\ LET d == IF outcome = "success"
                THEN displayTestResults(updated_solution, "dynamic")
                ELSE displayTestResults(currentVrpSolution, "dynamic")
       IN  /\ IF outcome = "success"
              THEN /\ currentVrpSolution' = updated_solution
                   /\ currentTestConfig' =
                          [currentTestConfig EXCEPT !.test_type = "dynamic_updated"]
              ELSE UNCHANGED << currentVrpSolution, currentTestConfig >>
           /\ dynamicLocationPairs' =
                  IF outcome = "success" THEN <<>> ELSE d.dynamicLocationPairs
           /\ currentDynamicMapInstance' = d.currentDynamicMapInstance
           /\ dynamicSectionHidden' = d.dynamicSectionHidden
           /\ mapClickBound' = d.mapClickBound
           /\ insertBtn' = finalInsertBtn(d.ui.insertBtn, dynamicLocationPairs')
           /\ targetVehicleSelect' = d.ui.targetVehicleSelect
           /\ insertionPointSelect' = d.ui.insertionPointSelect
           /\ insertionPointOptions' = d.ui.insertionPointOptions
    /\ UNCHANGED << pickingVars, runBtnDisabled, resolveInFlight, testInFlight,
                    nResolve, nTests >>

\* the callbacks of handleDynamicInsertion's fetch: .then on data.status, .catch, .finally
handleDynamicInsertionResponse(req, outcome, updated_solution) ==
    /\ UNCHANGED << checkpointVars, pickerVars >>
    /\ req \in insertInFlight
    /\ insertInFlight' = insertInFlight \ { req }
    /\ lastEvent' = Event("handleDynamicInsertionResponse", outcome)
    /\ LET d == IF outcome = "success"
                THEN displayTestResults(updated_solution, "dynamic")
                ELSE displayTestResults(currentVrpSolution, "dynamic")
       IN  /\ IF outcome = "success"
              THEN /\ currentVrpSolution' = updated_solution
                   /\ currentTestConfig' =
                          [currentTestConfig EXCEPT !.test_type = "dynamic_updated"]
              ELSE UNCHANGED << currentVrpSolution, currentTestConfig >>
           /\ dynamicLocationPairs' =
                  IF outcome = "success" THEN <<>> ELSE d.dynamicLocationPairs
           /\ currentDynamicMapInstance' = d.currentDynamicMapInstance
           /\ dynamicSectionHidden' = d.dynamicSectionHidden
           /\ mapClickBound' = d.mapClickBound
           /\ insertBtn' = finalInsertBtn(d.ui.insertBtn, dynamicLocationPairs')
           /\ targetVehicleSelect' = d.ui.targetVehicleSelect
           /\ insertionPointSelect' = d.ui.insertionPointSelect
           /\ insertionPointOptions' = d.ui.insertionPointOptions
    /\ UNCHANGED << pickingVars, runBtnDisabled, resolveInFlight, testInFlight,
                    nResolve, nInsert, nTests >>

(* ---------------------------------------------------------- specification *)

Next ==
    \/ \E s \in SnapshotIds, p \in PresetIds, t \in TestTypes : runTest(s, p, t)
    \/ \E req \in testInFlight, o \in Outcomes, sol \in Solutions :
          runTestResponse(req, o, sol)
    \/ viewTest
    \/ \E req \in testInFlight, o \in Outcomes, sol \in Solutions, ti \in TestInfos :
          viewTestResponse(req, o, sol, ti)
    \/ addPairBtnClick
    \/ \E latlng \in Points : handleDynamicMapClick(latlng)
    \/ \E req \in resolveInFlight, o \in Outcomes :
          processNewPairResponse(req, o, PairInfo(req))
    \/ \E v \in 0 .. 1 : selectVehicle(v)
    \/ \E k \in insertionPointOptions : selectInsertionPoint(k)
    \/ handleDynamicInsertion
    \/ \E req \in insertInFlight, o \in Outcomes, sol \in Solutions :
          handleDynamicInsertionResponse(req, o, sol)

Spec == Init /\ [][Next]_vars

(* ------------------------------------------------- the claims: concurrency *)

\* C1 (as claimed): at most one insert_dynamic request is in flight at any time.
C1_AtMostOneInsertionInFlight ==
    Cardinality(insertInFlight) <= 1

\* C7 (as claimed): at most one process_dynamic_pair request is in flight at any
\* time.
C7_AtMostOneResolveInFlight ==
    Cardinality(resolveInFlight) <= 1

(* ------------------------------------------- the claims: failed insertions *)

\* C2 (as claimed): handling an insertion that ended in an error answer or a
\* network error leaves the current solution and the backlog as they were.
C2_FailedInsertionLeavesStateUnchanged ==
    [][\A req \in insertInFlight, o \in Outcomes \ { "success" }, sol \in Solutions :
          handleDynamicInsertionResponse(req, o, sol) =>
              /\ currentVrpSolution' = currentVrpSolution
              /\ dynamicLocationPairs' = dynamicLocationPairs]_vars

\* the Coverage Model's check of a solution against the clusters to be covered:
\* every cluster is served by a stop or listed in missing_clusters
isFullyCovered(solution, allClusters) ==
    \A c \in allClusters :
        \/ c \in DOMAIN clusterCoverage(solution)
        \/ \E i \in DOMAIN solution.missing_clusters : solution.missing_clusters[i] = c

\* C5 (as claimed): a successful insertion answer whose solution leaves an active
\* cluster neither served nor listed as missing does not replace the current
\* solution.
C5_UncoveredSolutionRejected ==
    [][\A req \in insertInFlight, sol \in Solutions :
          (/\ handleDynamicInsertionResponse(req, "success", sol)
           /\ ~isFullyCovered(sol, ActiveClusters)) =>
              currentVrpSolution' = currentVrpSolution]_vars

(* ------------------------------------------------ the claims: binding step *)

\* one side of a pair carries a selected checkpoint that is one of its candidates
IsBound(side) ==
    /\ "selected_checkpoint" \in DOMAIN side
    /\ side.selected_checkpoint # NULL
    /\ \E i \in DOMAIN side.checkpoints :
           side.checkpoints[i].id = side.selected_checkpoint.id

\* C6 (as claimed): a request is sent only with every pair of the backlog bound
\* on both sides.
C6_InsertionOnlyWhenAllBound ==
    \A req \in insertInFlight :
        \A i \in DOMAIN req.requestData.new_location_pairs :
            /\ IsBound(req.requestData.new_location_pairs[i].pickup)
            /\ IsBound(req.requestData.new_location_pairs[i].dropoff)

\* C10: every request that is sent carries the whole backlog as it stands at the
\* click, and the backlog is not empty.
C10_RequestCarriesWholeBacklog ==
    [][\A req \in insertInFlight' \ insertInFlight :
          /\ req.requestData.new_location_pairs = dynamicLocationPairs
          /\ Len(dynamicLocationPairs) > 0]_vars

\* C10: a request with a backlog of two pairs has just been sent
C10_Witness ==
    /\ lastEvent = Event("handleDynamicInsertion", "sent")
    /\ \E req \in insertInFlight :
           /\ Len(req.requestData.new_location_pairs) = 2
           /\ req.requestData.new_location_pairs = dynamicLocationPairs

(* -------------------------------------- the claims: picking state machine *)

\* processNewPair has a snapshot and a preset to name in its request
HasContext ==
    /\ currentTestConfig # NULL
    /\ currentTestConfig.snapshot_id # UNDEFINED
    /\ currentTestConfig.preset_id # UNDEFINED

\* C3: the button starts picking, the first map click records the pickup, the
\* second returns to idle and sends one request for the two points, and the
\* successful answer to a request appends its pair once; the backlog never
\* holds more pairs than requests were answered.
C3_PickSequenceAppendsOnePair ==
    [][/\ (dynamicPickingState = "idle" /\ addPairBtnClick) =>
              dynamicPickingState' = "picking_pickup"
       /\ \A latlng \in Points :
              (dynamicPickingState = "picking_pickup" /\ handleDynamicMapClick(latlng)) =>
                  /\ dynamicPickingState' = "picking_dropoff"
                  /\ tempPickupCoords' = latlng
       /\ \A latlng \in Points :
              (dynamicPickingState = "picking_dropoff" /\ handleDynamicMapClick(latlng)) =>
                  /\ dynamicPickingState' = "idle"
                  /\ dynamicLocationPairs' = dynamicLocationPairs
                  /\ HasContext =>
                        \E req \in resolveInFlight' \ resolveInFlight :
                            /\ resolveInFlight' = resolveInFlight \cup { req }
                            /\ req.pickup_lat = tempPickupCoords.lat
                            /\ req.pickup_lon = tempPickupCoords.lng
                            /\ req.dropoff_lat = latlng.lat
                            /\ req.dropoff_lon = latlng.lng
       /\ \A req \in resolveInFlight :
              processNewPairResponse(req, "success", PairInfo(req)) =>
                  /\ dynamicLocationPairs' = Append(dynamicLocationPairs, PairInfo(req))
                  /\ resolveInFlight' = resolveInFlight \ { req }
                  /\ dynamicPickingState' = dynamicPickingState
       /\ Len(dynamicLocationPairs') + Cardinality(resolveInFlight') <= nResolve']_vars

\* C3: the one pair picked so far has been resolved, and the machine is idle
C3_Witness ==
    /\ lastEvent = Event("processNewPairResponse", "success")
    /\ dynamicPickingState = "idle"
    /\ nResolve = 1
    /\ Len(dynamicLocationPairs) = 1

\* C4: Cancel returns to idle, clears the temporary coordinates and markers,
\* keeps the backlog and sends nothing; nor does starting to pick or choosing the
\* pickup point touch the backlog or send anything.
C4_CancelDiscardsHalfBuiltPair ==
    [][/\ (dynamicPickingState # "idle" /\ addPairBtnClick) =>
              /\ dynamicPickingState' = "idle"
              /\ tempPickupCoords' = NULL
              /\ tempDropoffCoords' = NULL
              /\ tempPickupMarker' = NULL
              /\ tempDropoffMarker' = NULL
       /\ addPairBtnClick =>
              /\ dynamicLocationPairs' = dynamicLocationPairs
              /\ resolveInFlight' = resolveInFlight
       /\ \A latlng \in Points :
              (dynamicPickingState = "picking_pickup" /\ handleDynamicMapClick(latlng)) =>
                  /\ dynamicLocationPairs' = dynamicLocationPairs
                  /\ resolveInFlight' = resolveInFlight]_vars

\* C4: picking was cancelled after the pickup point, with a pair in the backlog
C4_Witness ==
    /\ lastEvent = Event("cancel", "picking_dropoff")
    /\ dynamicPickingState = "idle"
    /\ tempPickupCoords = NULL
    /\ Len(dynamicLocationPairs) = 1

\* C8 (as claimed): when the resolution started by the dropoff click fails, the
\* machine is in picking_dropoff with the pickup of that pair still recorded, and
\* the backlog is unchanged.
C8_FailedResolveStaysInPickingDropoff ==
    [][\A req \in resolveInFlight, o \in Outcomes \ { "success" } :
          processNewPairResponse(req, o, PairInfo(req)) =>
              /\ dynamicLocationPairs' = dynamicLocationPairs
              /\ dynamicPickingState' = "picking_dropoff"
              /\ tempPickupCoords' # NULL
              /\ tempPickupCoords'.lat = req.pickup_lat]_vars

\* C9 (as claimed): the machine goes from picking_pickup to picking_dropoff only
\* in the step that handles a successful resolution.
C9_PickupResolvedBeforeDropoff ==
    [][(dynamicPickingState = "picking_pickup" /\ dynamicPickingState' = "picking_dropoff") =>
          \E req \in resolveInFlight :
              processNewPairResponse(req, "success", PairInfo(req))]_vars

(* ------------------------------- the claims: what the Insert click checks *)

\* a processed pair for a pickup and a dropoff position of the snapshot
PairAt(pickup, dropoff) ==
    [pickup |-> ResolvedSide(pickup, pickup), dropoff |-> ResolvedSide(dropoff, dropoff)]

\* backlogs the Insert click may find: one pair, or two
Backlogs == { << PairAt(1, 2) >>, << PairAt(1, 1), PairAt(2, 1) >> }

\* values #target-vehicle-select may hold at the click
VehicleValues == -1 .. 2

\* values #insertion-point-select may hold at the click, -1 being the "N/A"
\* option written by populateInsertionPoints
InsertionPointValues == -1 .. 4

\* the page showing a dynamic test with a backlog, for every pair of values the
\* two controls can hand to the click handler
InitInsertionInputs ==
    /\ dynamicPickingState = "idle"
    /\ tempPickupCoords = NULL
    /\ tempDropoffCoords = NULL
    /\ tempPickupMarker = NULL
    /\ tempDropoffMarker = NULL
    /\ dynamicLocationPairs \in Backlogs
    /\ currentDynamicMapInstance = TheMap
    /\ currentVrpSolution \in Solutions
    /\ currentTestConfig = [snapshot_id |-> "s1", preset_id |-> "p1",
                            algorithm |-> "or_tools", test_type |-> "dynamic"]
    /\ dynamicSectionHidden = FALSE
    /\ mapClickBound = TRUE
    /\ insertBtn = "enabled"
    /\ targetVehicleSelect \in VehicleValues
    /\ insertionPointSelect \in InsertionPointValues
    /\ insertionPointOptions = populateInsertionPoints(0, currentVrpSolution).options
    /\ runBtnDisabled = FALSE
    /\ resolveInFlight = {}
    /\ insertInFlight = {}
    /\ testInFlight = {}
    /\ nResolve = 0
    /\ nInsert = 0
    /\ nTests = 0
    /\ lastEvent = Event("load", "")
    /\ checkpointsInit(FALSE)
    /\ mapPickerInit

\* cluster 2 is served by a checkpoint of each route
SolDoubleCovered ==
    [routes |-> << Route(<< CheckpointStop(1, <<1, 2>>) >>),
                   Route(<< CheckpointStop(2, <<2>>) >>) >>,
     missing_clusters |-> <<>>]

\* the solutions an answer to insert_dynamic may carry
UpdatedSolutions == Solutions \cup { SolDoubleCovered }

NextInsertionInputs ==
    \/ handleDynamicInsertion
    \/ \E req \in insertInFlight, o \in Outcomes, sol \in UpdatedSolutions :
          handleDynamicInsertionResponse(req, o, sol)

SpecInsertionInputs == InitInsertionInputs /\ [][NextInsertionInputs]_vars

\* the vehicle index names a route of the solution, and the insertion index is a
\* position of that route: 0 .. number of its stops
ValidSplice(solution, vehicleIndex, insertionIndex) ==
    /\ solution # NULL
    /\ (vehicleIndex + 1) \in DOMAIN solution.routes
    /\ insertionIndex \in 0 .. Len(solution.routes[vehicleIndex + 1].stops)

C12_SolutionReplacedWholesale ==
    [][currentVrpSolution' # currentVrpSolution =>
          \/ \E req \in testInFlight, sol \in Solutions :
                /\ runTestResponse(req, "success", sol)
                /\ currentVrpSolution' = sol
          \/ \E req \in testInFlight, sol \in Solutions, ti \in TestInfos :
                /\ viewTestResponse(req, "success", sol, ti)
                /\ currentVrpSolution' = sol
          \/ \E req \in insertInFlight, sol \in Solutions :
                /\ handleDynamicInsertionResponse(req, "success", sol)
                /\ currentVrpSolution' = sol]_vars

\* C12: an insertion into the first test was answered with the updated solution
C12_Witness ==
    /\ lastEvent = Event("handleDynamicInsertionResponse", "success")
    /\ nTests = 1
    /\ currentVrpSolution = SolInserted

\* C13 (as claimed): an answer to a resolve or insertion call whose status is
\* missing or is no status of the API appends no pair, does not replace the
\* current solution and leaves the backlog as it was.
C13_MalformedStatusIsFailure ==
    [][\A status \in ResponseStatuses \ { "success", "error" } :
          /\ \A req \in resolveInFlight :
                 processNewPairResponse(req, statusBranch(status), PairInfo(req)) =>
                     dynamicLocationPairs' = dynamicLocationPairs
          /\ \A req \in insertInFlight, sol \in Solutions :
                 handleDynamicInsertionResponse(req, statusBranch(status), sol) =>
                     /\ currentVrpSolution' = currentVrpSolution
                     /\ dynamicLocationPairs' = dynamicLocationPairs]_vars

\* C14 (as claimed): handling the answer to viewTest leaves the backlog, the
\* picking state and the current solution as they were, and does not open the
\* dynamic section.
C14_ViewTestIsReadOnly ==
    [][\A req \in testInFlight, o \in Outcomes, sol \in Solutions, ti \in TestInfos :
          viewTestResponse(req, o, sol, ti) =>
              /\ dynamicLocationPairs' = dynamicLocationPairs
              /\ dynamicPickingState' = dynamicPickingState
              /\ currentVrpSolution' = currentVrpSolution
              /\ dynamicSectionHidden => dynamicSectionHidden']_vars

(* ------------------------------------------- the claims: the insert control *)

\* C15: a request is added to those in flight only by a click on the insert
\* control, one request per click, and handling a failed request sends nothing.
C15_NoAutomaticRetry ==
    [][/\ (nInsert' # nInsert \/ ~(insertInFlight' \subseteq insertInFlight)) =>
              /\ handleDynamicInsertion
              /\ nInsert' = nInsert + 1
              /\ Cardinality(insertInFlight' \ insertInFlight) = 1
       /\ \A req \in insertInFlight, o \in Outcomes \ { "success" }, sol \in Solutions :
              handleDynamicInsertionResponse(req, o, sol) =>
                  /\ insertInFlight' = insertInFlight \ { req }
                  /\ nInsert' = nInsert]_vars

\* C15: the only insertion request sent so far has failed, and none is in flight
C15_Witness ==
    /\ lastEvent = Event("handleDynamicInsertionResponse", "network_error")
    /\ nInsert = 1
    /\ insertInFlight = {}

\* C16 (as claimed): with no insertion in flight and a backlog that is not empty,
\* the insert control is enabled.
C16_InsertControlEnabledWhenIdle ==
    (insertInFlight = {} /\ Len(dynamicLocationPairs) > 0) => insertBtn = "enabled"

(* ---------------------------------------------- the claims: coverage model *)

\* C17 (as claimed): in the current solution every covered cluster is served by
\* one checkpoint stop of one route.
C17_ClusterServedByOneCheckpoint ==
    currentVrpSolution # NULL =>
        \A c \in DOMAIN clusterCoverage(currentVrpSolution) :
            Cardinality(clusterCoverage(currentVrpSolution)[c]) = 1

\* C18 (as claimed): while a dynamic test is shown, no stop of the current
\* solution that carries the dynamic flag is listed as a checkpoint in the stop
\* sequence, drawn with a checkpoint marker, counted in the cluster coverage or
\* labelled as a checkpoint in the insertion points.
C18_DynamicStopNeverShownAsCheckpoint ==
    (currentVrpSolution # NULL /\ ~dynamicSectionHidden) =>
        LET checkpointRoute == isCheckpointRoute(currentVrpSolution, "dynamic")
        IN  \A r \in DOMAIN currentVrpSolution.routes :
              \A k \in DOMAIN currentVrpSolution.routes[r].stops :
                LET route == currentVrpSolution.routes[r]
                    stop == route.stops[k]
                IN  stop.is_dynamic =>
                      /\ stopSequenceItem(stop, checkpointRoute) # "CP"
                      /\ markerKind(stop, checkpointRoute) # "checkpoint"
                      /\ insertionPointLabel(route) # "Checkpoint"
                      /\ \A c \in DOMAIN clusterCoverage(currentVrpSolution) :
                            [routeIdx |-> r - 1, lat |-> stop.lat, lon |-> stop.lon]
                                \notin clusterCoverage(currentVrpSolution)[c]

(* ------------------------------------------ the claims: resolved candidates *)

\* C19: a successful answer is stored as it came, also when a side has no
\* candidate checkpoint: the pair is appended with that side's list empty, and
\* every side in the backlog holds the candidates the resolver returned for it.
C19_ZeroCandidatesStillAppended ==
    [][/\ \A req \in resolveInFlight :
              processNewPairResponse(req, "success", PairInfo(req)) =>
                  /\ Len(dynamicLocationPairs') = Len(dynamicLocationPairs) + 1
                  /\ dynamicPickingState' = dynamicPickingState
       /\ \A i \in DOMAIN dynamicLocationPairs' :
              /\ dynamicLocationPairs'[i].pickup.checkpoints =
                     ResolvedSide(dynamicLocationPairs'[i].pickup.lat,
                                  dynamicLocationPairs'[i].pickup.lon).checkpoints
              /\ dynamicLocationPairs'[i].dropoff.checkpoints =
                     ResolvedSide(dynamicLocationPairs'[i].dropoff.lat,
                                  dynamicLocationPairs'[i].dropoff.lon).checkpoints]_vars

\* C19: the pair just appended has no candidate checkpoint for its dropoff
C19_Witness ==
    /\ lastEvent = Event("processNewPairResponse", "success")
    /\ Len(dynamicLocationPairs) > 0
    /\ Len(dynamicLocationPairs[Len(dynamicLocationPairs)].dropoff.checkpoints) = 0
    /\ Len(dynamicLocationPairs[Len(dynamicLocationPairs)].pickup.checkpoints) > 0

(* ------------------------------------------- the claims: request contents *)

\* C20: a request that is sent names the vehicle and the insertion point the two
\* controls show at the click, carries the current solution, and holds for each
\* pair of the backlog one pickup and one dropoff.
C20_RequestCarriesSelection ==
    [][\A req \in insertInFlight' \ insertInFlight :
          /\ req.requestData.target_vehicle_index = targetVehicleSelect
          /\ req.requestData.insertion_point_index = insertionPointSelect
          /\ req.requestData.current_solution = currentVrpSolution
          /\ Len(req.requestData.new_location_pairs) = Len(dynamicLocationPairs)
          /\ \A i \in DOMAIN req.requestData.new_location_pairs :
                /\ DOMAIN req.requestData.new_location_pairs[i] = { "pickup", "dropoff" }
                /\ req.requestData.new_location_pairs[i].pickup = dynamicLocationPairs[i].pickup
                /\ req.requestData.new_location_pairs[i].dropoff = dynamicLocationPairs[i].dropoff]_vars

\* C20: a request was sent for the second vehicle, after its first stop
C20_Witness ==
    /\ lastEvent = Event("handleDynamicInsertion", "sent")
    /\ \E req \in insertInFlight :
           /\ req.requestData.target_vehicle_index = 1
           /\ req.requestData.insertion_point_index = 1
           /\ req.requestData.current_solution = currentVrpSolution

(* --------------------------------- the claims: coverage map, splice points *)

\* the checkpoint stops of a solution that list cluster c, as the coverage map
\* records them
CheckpointStopsServing(solution, c) ==
    UNION { { [routeIdx |-> r - 1,
               lat |-> solution.routes[r].stops[k].lat,
               lon |-> solution.routes[r].stops[k].lon] :
              k \in { j \in DOMAIN solution.routes[r].stops :
                        /\ solution.routes[r].stops[j].type = "checkpoint"
                        /\ ~solution.routes[r].stops[j].is_dynamic
                        /\ \E i \in DOMAIN solution.routes[r].stops[j].clusters_served :
                              solution.routes[r].stops[j].clusters_served[i] = c } } :
            r \in DOMAIN solution.routes }

C24_LatePairSurvivesInsertion ==
    [][\A req \in insertInFlight, sol \in Solutions :
          LET sent == req.requestData.new_location_pairs
          IN  (/\ handleDynamicInsertionResponse(req, "success", sol)
               /\ Len(dynamicLocationPairs) >= Len(sent)
               /\ SubSeq(dynamicLocationPairs, 1, Len(sent)) = sent) =>
                  dynamicLocationPairs' =
                      SubSeq(dynamicLocationPairs, Len(sent) + 1, Len(dynamicLocationPairs))]_vars

\* C25 (as claimed): a successful answer to an insertion built from a solution
\* that is no longer the current one changes neither the current solution nor
\* the current test configuration.
C25_LateInsertionNotApplied ==
    [][\A req \in insertInFlight, sol \in Solutions :
          (/\ handleDynamicInsertionResponse(req, "success", sol)
           /\ req.requestData.current_solution # currentVrpSolution) =>
              /\ currentVrpSolution' = currentVrpSolution
              /\ currentTestConfig' = currentTestConfig]_vars

\* C26 (as claimed): a successful resolution requested for another snapshot or
\* preset than those of the current test configuration appends nothing.
C26_StaleResolutionNotAppended ==
    [][\A req \in resolveInFlight :
          (/\ processNewPairResponse(req, "success", PairInfo(req))
           /\ \/ currentTestConfig = NULL
              \/ currentTestConfig.snapshot_id # req.snapshot_id
              \/ currentTestConfig.preset_id # req.preset_id) =>
              dynamicLocationPairs' = dynamicLocationPairs]_vars

\* C27 (as claimed): the step that adopts and displays the solution of a
\* successful answer ends with the picking state idle and no temporary
\* coordinates.
C27_NoHalfBuiltPairAfterRedisplay ==
    [][(\/ \E req \in testInFlight, sol \in Solutions :
              runTestResponse(req, "success", sol)
        \/ \E req \in testInFlight, sol \in Solutions, ti \in TestInfos :
              viewTestResponse(req, "success", sol, ti)
        \/ \E req \in insertInFlight, sol \in Solutions :
              handleDynamicInsertionResponse(req, "success", sol)) =>
           /\ dynamicPickingState' = "idle"
           /\ tempPickupCoords' = NULL
           /\ tempDropoffCoords' = NULL]_vars

(* ------------------------------- the checkpoint editor (static/js/checkpoints.js) *)

\* load and save requests of the editor issued in one behaviour, the reload
\* that follows a successful save included
MaxCheckpointRequests == 5
\* checkpoints shown for a cluster
MaxCheckpoints == 2

\* the clusters of the sidebar (ClusterManager.selectCluster)
CheckpointClusters == { "c1", "c2" }

\* a checkpoint as the backend sends it; from_type may be missing
Checkpoint(id, at, from_type) ==
    [id |-> id, lat |-> at, lon |-> at, from_type |-> from_type,
     to_type |-> "residential", confidence |-> "0.9"]

\* data.checkpoints of /checkpoint/cluster/<c>/checkpoints: none, one or two
ServerCheckpoints(c) ==
    { <<>>,
      << Checkpoint(<< c, 1 >>, 1, "primary") >>,
      << Checkpoint(<< c, 1 >>, 1, "primary"), Checkpoint(<< c, 2 >>, 2, UNDEFINED) >> }

\* how the load request ends: an answer with data.checkpoints, or a failure
LoadOutcomes == { "ok", "error" }

\* the argument of toggleEditMode: a boolean, or left out
Given(value) == [given |-> TRUE, value |-> value]

NotGiven == [given |-> FALSE, value |-> FALSE]

\* L.marker([cp.lat, cp.lon], {draggable: _editMode}) with marker.checkpoint = cp
Marker(cp, draggable) ==
    [checkpoint |-> cp, latlng |-> [lat |-> cp.lat, lng |-> cp.lon],
     draggable |-> draggable]

\* displayCheckpoints: every old marker is removed and one marker is made per
\* checkpoint, draggable when the editor is in edit mode
displayCheckpoints(checkpoints, mode) ==
    [i \in 1 .. Len(checkpoints) |-> Marker(checkpoints[i], mode)]

\* the editor's requests not answered yet, and the reloads their answers may issue
CheckpointLoad ==
    nCheckpointRequests + Cardinality({ r \in checkpointInFlight : r.kind = "save" })

\* fetch(`/checkpoint/cluster/${clusterId}/checkpoints`)
LoadRequest(id, clusterId) ==
    [id |-> id, kind |-> "load", cluster |-> clusterId, checkpoints |-> <<>>]

\* ClusterManager.selectCluster -> CheckpointManager.loadCheckpoints(clusterId)
loadCheckpoints(clusterId) ==
    /\ CheckpointLoad < MaxCheckpointRequests
    /\ selectedClusterId' = clusterId
    /\ nCheckpointRequests' = nCheckpointRequests + 1
    /\ checkpointInFlight' =
           checkpointInFlight \cup { LoadRequest(nCheckpointRequests + 1, clusterId) }
    /\ lastEvent' = Event("loadCheckpoints", clusterId)
    /\ UNCHANGED << globalE, editMode, checkpointMarkers, saveBtn, saveListeners,
                    editClickBound >>
    /\ UNCHANGED << vrpVars, pickerVars >>

\* the callbacks of loadCheckpoints: the checkpoints of the answer are displayed,
\* none when the answer has no array or the request failed; displayCheckpoints
\* ends with addCheckpointButtonHandlers, which binds saveCheckpoints to the save
\* button next to the listener of initialize()
loadCheckpointsResponse(req, outcome, checkpoints) ==
    /\ req \in checkpointInFlight
    /\ req.kind = "load"
    /\ checkpointInFlight' = checkpointInFlight \ { req }
    /\ checkpointMarkers' =
           displayCheckpoints(IF outcome = "ok" THEN checkpoints ELSE <<>>, editMode)
    /\ saveListeners' = 2
    /\ lastEvent' = Event("loadCheckpointsResponse", outcome)
    /\ UNCHANGED << globalE, selectedClusterId, editMode, saveBtn, editClickBound,
                    nCheckpointRequests >>
    /\ UNCHANGED << vrpVars, pickerVars >>

\* toggleEditMode where both buttons and the map exist: what it leaves behind.
\* The statement `e` after the button check reads a name the script never
\* declares: where the page defines no global e it throws a ReferenceError
\* before _editMode is assigned.
toggleEditMode(forceState) ==
    IF ~globalE
    THEN [threw |-> TRUE, editMode |-> editMode, markers |-> checkpointMarkers,
          display |-> saveBtn.display, bound |-> editClickBound]
    ELSE LET turnOn == IF forceState.given THEN forceState.value ELSE ~editMode
         IN  [threw |-> FALSE, editMode |-> turnOn,
              markers |-> [i \in DOMAIN checkpointMarkers |->
                              [checkpointMarkers[i] EXCEPT !.draggable = turnOn]],
              display |-> IF turnOn THEN "inline-block" ELSE "none",
              bound |-> turnOn]

\* the click listener of #toggle-edit-checkpoints-btn bound by initialize()
editBtnClick ==
    /\ IF selectedClusterId = NoCluster
       THEN /\ lastEvent' = Event("editBtnClick", "no_cluster")
            /\ UNCHANGED << editMode, checkpointMarkers, saveBtn, editClickBound >>
       ELSE LET t == toggleEditMode(NotGiven)
            IN  /\ editMode' = t.editMode
                /\ checkpointMarkers' = t.markers
                /\ saveBtn' = [saveBtn EXCEPT !.display = t.display]
                /\ editClickBound' = t.bound
                /\ lastEvent' = Event("editBtnClick", IF t.threw THEN "threw" ELSE "toggled")
    /\ UNCHANGED << globalE, selectedClusterId, saveListeners, checkpointInFlight,
                    nCheckpointRequests >>
    /\ UNCHANGED << vrpVars, pickerVars >>

\* the Edit button of the sidebar item of marker i: edit mode is forced on and
\* the marker made draggable; an exception of toggleEditMode ends the handler
editCheckpoint(i) ==
    /\ i \in DOMAIN checkpointMarkers
    /\ LET t == toggleEditMode(Given(TRUE))
       IN  /\ editMode' = t.editMode
           /\ checkpointMarkers' =
                  IF t.threw THEN t.markers
                  ELSE [t.markers EXCEPT ![i].draggable = TRUE]
           /\ saveBtn' = [saveBtn EXCEPT !.display = t.display]
           /\ editClickBound' = t.bound
           /\ lastEvent' = Event("editCheckpoint", IF t.threw THEN "threw" ELSE "toggled")
    /\ UNCHANGED << globalE, selectedClusterId, saveListeners, checkpointInFlight,
                    nCheckpointRequests >>
    /\ UNCHANGED << vrpVars, pickerVars >>

\* the operator drags a draggable marker: Leaflet moves it, marker.checkpoint
\* keeps the coordinates it was made from
dragMarker(i, latlng) ==
    /\ i \in DOMAIN checkpointMarkers
    /\ checkpointMarkers[i].draggable
    /\ checkpointMarkers[i].latlng # latlng
    /\ checkpointMarkers' = [checkpointMarkers EXCEPT ![i].latlng = latlng]
    /\ lastEvent' = Event("dragMarker", i)
    /\ UNCHANGED << globalE, selectedClusterId, editMode, saveBtn, saveListeners,
                    editClickBound, checkpointInFlight, nCheckpointRequests >>
    /\ UNCHANGED << vrpVars, pickerVars >>

\* handleMapClick of the editor: in edit mode a manual checkpoint is added and
\* all checkpoints are displayed again from marker.checkpoint
handleMapClick(latlng) ==
    /\ editClickBound
    /\ Len(checkpointMarkers) < MaxCheckpoints
    /\ IF ~editMode \/ selectedClusterId = NoCluster
       THEN /\ lastEvent' = Event("handleMapClick", "ignored")
            /\ UNCHANGED << checkpointMarkers, saveListeners >>
       ELSE LET newCheckpoint ==
                    [id |-> << "temp", Len(checkpointMarkers) + 1 >>,
                     lat |-> latlng.lat, lon |-> latlng.lng,
                     from_type |-> "unclassified", to_type |-> "residential",
                     confidence |-> "0.7"]
                checkpoints ==
                    [i \in DOMAIN checkpointMarkers |-> checkpointMarkers[i].checkpoint]
            IN  /\ checkpointMarkers' =
                       displayCheckpoints(Append(checkpoints, newCheckpoint), editMode)
                /\ saveListeners' = 2
                /\ lastEvent' = Event("handleMapClick", "added")
    /\ UNCHANGED << globalE, selectedClusterId, editMode, saveBtn, editClickBound,
                    checkpointInFlight, nCheckpointRequests >>
    /\ UNCHANGED << vrpVars, pickerVars >>

\* a save that sends the moved markers only
saveCheckpoints_movedOnly ==
    LET moved == SelectSeq(checkpointMarkers,
                           LAMBDA m : m.latlng.lat # m.checkpoint.lat
                                        \/ m.latlng.lng # m.checkpoint.lon)
        checkpoints ==
            [i \in DOMAIN moved |->
                [id |-> moved[i].checkpoint.id,
                 lat |-> moved[i].latlng.lat, lon |-> moved[i].latlng.lng,
                 from_type |-> moved[i].checkpoint.from_type,
                 to_type |-> moved[i].checkpoint.to_type,
                 confidence |-> moved[i].checkpoint.confidence]]
    IN  [sent |-> selectedClusterId # NoCluster /\ Len(checkpoints) > 0,
         cluster |-> selectedClusterId, checkpoints |-> checkpoints]

\* saveCheckpoints up to its fetch: whether a request is sent, and its body
saveCheckpoints ==
    LET checkpoints ==
            [i \in DOMAIN checkpointMarkers |->
                [id |-> checkpointMarkers[i].checkpoint.id,
                 lat |-> checkpointMarkers[i].latlng.lat,
                 lon |-> checkpointMarkers[i].latlng.lng,
                 from_type |->
                     IF checkpointMarkers[i].checkpoint.from_type = UNDEFINED
                     THEN "unclassified"
                     ELSE checkpointMarkers[i].checkpoint.from_type,
                 to_type |-> checkpointMarkers[i].checkpoint.to_type,
                 confidence |-> checkpointMarkers[i].checkpoint.confidence]]
    IN  [sent |-> selectedClusterId # NoCluster /\ Len(checkpoints) > 0,
         cluster |-> selectedClusterId, checkpoints |-> checkpoints]

\* a click on #save-checkpoints-btn: saveCheckpoints runs once per listener
saveBtnClick ==
    /\ saveBtn.display # "none"
    /\ ~saveBtn.disabled
    /\ CheckpointLoad + saveListeners + saveListeners <= MaxCheckpointRequests
    /\ LET save == saveCheckpoints
       IN  IF save.sent
           THEN /\ checkpointInFlight' =
                       checkpointInFlight \cup
                           { [id |-> nCheckpointRequests + k, kind |-> "save",
                              cluster |-> save.cluster,
                              checkpoints |-> save.checkpoints] :
                             k \in 1 .. saveListeners }
                /\ nCheckpointRequests' = nCheckpointRequests + saveListeners
                /\ saveBtn' = [saveBtn EXCEPT !.disabled = TRUE]
                /\ lastEvent' = Event("saveCheckpoints", "sent")
           ELSE /\ lastEvent' = Event("saveCheckpoints", "nothing_sent")
                /\ UNCHANGED << checkpointInFlight, nCheckpointRequests, saveBtn >>
    /\ UNCHANGED << globalE, selectedClusterId, editMode, checkpointMarkers,
                    saveListeners, editClickBound >>
    /\ UNCHANGED << vrpVars, pickerVars >>

\* the callbacks of the save request: on success edit mode is switched off and
\* the checkpoints of the selected cluster are loaded again; an exception of
\* toggleEditMode goes to .catch and skips the reload; .finally enables the button
saveCheckpointsResponse(req, outcome) ==
    /\ req \in checkpointInFlight
    /\ req.kind = "save"
    /\ IF outcome = "success"
       THEN LET t == toggleEditMode(Given(FALSE))
            IN  /\ editMode' = t.editMode
                /\ checkpointMarkers' = t.markers
                /\ saveBtn' = [display |-> t.display, disabled |-> FALSE]
                /\ editClickBound' = t.bound
                /\ IF t.threw
                   THEN /\ checkpointInFlight' = checkpointInFlight \ { req }
                        /\ UNCHANGED nCheckpointRequests
                        /\ lastEvent' = Event("saveCheckpointsResponse", "threw")
                   ELSE /\ checkpointInFlight' =
                               (checkpointInFlight \ { req }) \cup
                                   { LoadRequest(nCheckpointRequests + 1,
                                                 selectedClusterId) }
                        /\ nCheckpointRequests' = nCheckpointRequests + 1
                        /\ lastEvent' = Event("saveCheckpointsResponse", "success")
       ELSE /\ checkpointInFlight' = checkpointInFlight \ { req }
            /\ saveBtn' = [saveBtn EXCEPT !.disabled = FALSE]
            /\ lastEvent' = Event("saveCheckpointsResponse", outcome)
            /\ UNCHANGED << editMode, checkpointMarkers, editClickBound,
                            nCheckpointRequests >>
    /\ UNCHANGED << globalE, selectedClusterId, saveListeners >>
    /\ UNCHANGED << vrpVars, pickerVars >>

\* the editor on a page that may or may not define a global e
InitCheckpoints ==
    /\ vrpTestingInit
    /\ \E e \in BOOLEAN : checkpointsInit(e)
    /\ mapPickerInit

NextCheckpoints ==
    \/ \E c \in CheckpointClusters : loadCheckpoints(c)
    \/ \E req \in checkpointInFlight, o \in LoadOutcomes :
          \E cps \in ServerCheckpoints(req.cluster) :
              loadCheckpointsResponse(req, o, cps)
    \/ editBtnClick
    \/ \E i \in DOMAIN checkpointMarkers : editCheckpoint(i)
    \/ \E i \in DOMAIN checkpointMarkers, latlng \in Points : dragMarker(i, latlng)
    \/ \E latlng \in Points : handleMapClick(latlng)
    \/ saveBtnClick
    \/ \E req \in checkpointInFlight, o \in Outcomes : saveCheckpointsResponse(req, o)

SpecCheckpoints == InitCheckpoints /\ [][NextCheckpoints]_vars

(* ------------------------------------------- the claims: the checkpoint editor *)

\* C23: every save request issued by a step is addressed to the selected
\* cluster and carries one entry per displayed checkpoint marker, in display
\* order, with the marker's current position; a click on the save button sends
\* a request exactly when a cluster is selected and a checkpoint is displayed.
C23_SaveSendsFullCheckpointSet ==
    [][/\ \A r \in checkpointInFlight' \ checkpointInFlight :
              r.kind = "save" =>
                  /\ selectedClusterId # NoCluster
                  /\ r.cluster = selectedClusterId
                  /\ Len(r.checkpoints) = Len(checkpointMarkers)
                  /\ Len(r.checkpoints) > 0
                  /\ \A i \in DOMAIN checkpointMarkers :
                        /\ r.checkpoints[i].id = checkpointMarkers[i].checkpoint.id
                        /\ r.checkpoints[i].lat = checkpointMarkers[i].latlng.lat
                        /\ r.checkpoints[i].lon = checkpointMarkers[i].latlng.lng
       /\ (saveBtnClick /\ selectedClusterId # NoCluster /\ checkpointMarkers # <<>>) =>
              \E r \in checkpointInFlight' \ checkpointInFlight : r.kind = "save"
       /\ (saveBtnClick /\ (selectedClusterId = NoCluster \/ checkpointMarkers = <<>>)) =>
              checkpointInFlight' = checkpointInFlight]_vars

\* a save request is in flight that carries two checkpoints, one of them at a
\* position it was dragged to
C23_Witness ==
    \E r \in checkpointInFlight :
        /\ r.kind = "save"
        /\ Len(r.checkpoints) = 2
        /\ \E i \in DOMAIN r.checkpoints, c \in ServerCheckpoints(r.cluster) :
              /\ i \in DOMAIN c
              /\ c[i].id = r.checkpoints[i].id
              /\ c[i].lat # r.checkpoints[i].lat

\* C28 (as claimed): the edit button flips edit mode, the Edit button of a
\* checkpoint forces it on, a successful save ends with edit mode off and a load
\* request for the selected cluster, and whenever edit mode is off no marker is
\* draggable.
C28_ToggleEditModeSetsMode ==
    [][/\ (editBtnClick /\ selectedClusterId # NoCluster) => editMode' = ~editMode
       /\ (\E i \in DOMAIN checkpointMarkers : editCheckpoint(i)) => editMode'
       /\ (\E req \in checkpointInFlight : saveCheckpointsResponse(req, "success")) =>
              /\ ~editMode'
              /\ \E r \in checkpointInFlight' \ checkpointInFlight :
                    r.kind = "load" /\ r.cluster = selectedClusterId
       /\ ~editMode' =>
              \A i \in DOMAIN checkpointMarkers' : ~checkpointMarkers'[i].draggable]_vars

(* --------------------------------------- the map picker (static/js/map_picker.js) *)

\* verifyLocation() calls issued in one behaviour
MaxVerify == 4
\* get_preset requests issued in one behaviour
MaxPresets == 2

\* [lat, lng]
Coord(lat, lng) == [lat |-> lat, lng |-> lng]

\* data.preset of /get_preset/<id>: two destinations and no warehouse, or a
\* warehouse and one destination
SavedPresets ==
    { [name |-> "A", warehouse |-> NULL,
       destinations |-> << Coord(1, 1), Coord(2, 2) >>],
      [name |-> "B", warehouse |-> Coord(0, 0),
       destinations |-> << Coord(3, 3) >>] }

\* how the promise of verifyLocation settles: with an address (the geocoder's or
\* the one typed into the address form), or rejected (the form cancelled, the
\* address not saved)
VerifyOutcomes == { "address", "rejected" }

\* the verifications the presets awaiting their answer will issue: at most two each
PickerLoad == nVerify + Cardinality(presetInFlight) + Cardinality(presetInFlight)

\* the marker of destination number `number`, L.divIcon with the number as label
DestinationMarker(coord, number) ==
    [latlng |-> coord, number |-> number]

\* verifyLocation(lat, lng, locationType): the requests setWarehouse or
\* addDestination wait for, numbered from `first`
verifyLocation(first, coords, locationType) ==
    { [id |-> first + i - 1, coord |-> coords[i], locationType |-> locationType] :
      i \in DOMAIN coords }

setLocationMode(mode) ==
    /\ locationMode # mode
    /\ locationMode' = mode
    /\ lastEvent' = Event("setLocationMode", mode)
    /\ UNCHANGED << warehouse, destinations, destinationMarkers, verifyInFlight,
                    presetInFlight, nVerify, nPresets, lastApply >>
    /\ UNCHANGED << vrpVars, checkpointVars >>

\* handleMapClick of the map picker: setWarehouse or addDestination up to the
\* verification they start with
pickerMapClick(latlng) ==
    /\ PickerLoad < MaxVerify
    /\ verifyInFlight' =
           verifyInFlight \cup
               verifyLocation(nVerify + 1, << Coord(latlng.lat, latlng.lng) >>,
                              locationMode)
    /\ nVerify' = nVerify + 1
    /\ lastApply' = NULL
    /\ lastEvent' = Event("handleMapClick", locationMode)
    /\ UNCHANGED << locationMode, warehouse, destinations, destinationMarkers,
                    presetInFlight, nPresets >>
    /\ UNCHANGED << vrpVars, checkpointVars >>

\* the callback of addDestination: the coordinate and its marker are appended,
\* the marker numbered with the length the array then has
addDestination(coord) ==
    /\ destinations' = Append(destinations, coord)
    /\ destinationMarkers' =
           Append(destinationMarkers, DestinationMarker(coord, Len(destinations) + 1))
    /\ UNCHANGED << locationMode, warehouse >>

\* the callback of setWarehouse: the warehouse is replaced and the mode goes
\* back to 'destination'
setWarehouse(coord) ==
    /\ warehouse' = coord
    /\ locationMode' = "destination"
    /\ UNCHANGED << destinations, destinationMarkers >>

\* a verification settles: .then of setWarehouse / addDestination, or their .catch
verifyLocationResponse(req, outcome) ==
    /\ req \in verifyInFlight
    /\ verifyInFlight' = verifyInFlight \ { req }
    /\ IF outcome = "address"
       THEN /\ IF req.locationType = "warehouse"
               THEN setWarehouse(req.coord)
               ELSE addDestination(req.coord)
            /\ UNCHANGED lastApply
       ELSE /\ lastApply' = IF lastApply = NULL THEN NULL
                            ELSE [lastApply EXCEPT !.rejected = TRUE]
            /\ UNCHANGED << locationMode, warehouse, destinations, destinationMarkers >>
    /\ lastEvent' = Event("verifyLocationResponse", outcome)
    /\ UNCHANGED << presetInFlight, nVerify, nPresets >>
    /\ UNCHANGED << vrpVars, checkpointVars >>

\* a removal that splices both arrays and leaves the other markers as they are
removeDestination_spliceOnly(index) ==
    /\ index \in 0 .. Len(destinations) - 1
    /\ destinations' =
           [i \in 1 .. Len(destinations) - 1 |->
               IF i <= index THEN destinations[i] ELSE destinations[i + 1]]
    /\ destinationMarkers' =
           [i \in 1 .. Len(destinationMarkers) - 1 |->
               IF i <= index THEN destinationMarkers[i] ELSE destinationMarkers[i + 1]]
    /\ lastApply' = NULL
    /\ lastEvent' = Event("removeDestination", index)
    /\ UNCHANGED << locationMode, warehouse, verifyInFlight, presetInFlight,
                    nVerify, nPresets >>
    /\ UNCHANGED << vrpVars, checkpointVars >>

\* removeDestination(index), from the x of the sidebar entry or the context menu
\* of the marker: the entry is spliced out and every marker is made anew
removeDestination(index) ==
    /\ index \in 0 .. Len(destinations) - 1
    /\ destinations' =
           [i \in 1 .. Len(destinations) - 1 |->
               IF i <= index THEN destinations[i] ELSE destinations[i + 1]]
    /\ destinationMarkers' =
           [i \in 1 .. Len(destinations) - 1 |->
               DestinationMarker(destinations'[i], i)]
    /\ lastApply' = NULL
    /\ lastEvent' = Event("removeDestination", index)
    /\ UNCHANGED << locationMode, warehouse, verifyInFlight, presetInFlight,
                    nVerify, nPresets >>
    /\ UNCHANGED << vrpVars, checkpointVars >>

\* clearSelectionsWithoutConfirm, and clearSelections once confirmed
clearSelectionsWithoutConfirm ==
    /\ warehouse' = NULL
    /\ destinationMarkers' = <<>>
    /\ destinations' = <<>>

\* the clear button: confirm() accepted or dismissed
clearSelections(confirmed) ==
    /\ IF confirmed
       THEN clearSelectionsWithoutConfirm
       ELSE UNCHANGED << warehouse, destinations, destinationMarkers >>
    /\ lastApply' = NULL
    /\ lastEvent' = Event("clearSelections", IF confirmed THEN "cleared" ELSE "kept")
    /\ UNCHANGED << locationMode, verifyInFlight, presetInFlight, nVerify, nPresets >>
    /\ UNCHANGED << vrpVars, checkpointVars >>

\* applySelectedPreset up to its fetch(`/get_preset/${presetId}`)
applySelectedPreset(presetId) ==
    /\ nPresets < MaxPresets
    /\ PickerLoad + 2 <= MaxVerify
    /\ presetInFlight' = presetInFlight \cup { [id |-> nPresets + 1, preset |-> presetId] }
    /\ nPresets' = nPresets + 1
    /\ lastEvent' = Event("applySelectedPreset", presetId)
    /\ UNCHANGED << locationMode, warehouse, destinations, destinationMarkers,
                    verifyInFlight, nVerify, lastApply >>
    /\ UNCHANGED << vrpVars, checkpointVars >>

\* the callbacks of applySelectedPreset: on success the selections are cleared
\* and setWarehouse / addDestination are called for the preset's locations, each
\* of which starts a verification of its own
applySelectedPresetResponse(req, outcome, preset) ==
    /\ req \in presetInFlight
    /\ req.preset = preset.name
    /\ presetInFlight' = presetInFlight \ { req }
    /\ IF outcome = "success"
       THEN LET forWarehouse ==
                    IF preset.warehouse = NULL THEN {}
                    ELSE verifyLocation(nVerify + 1, << preset.warehouse >>, "warehouse")
                forDestinations ==
                    verifyLocation(nVerify + Cardinality(forWarehouse) + 1,
                                   preset.destinations, "destination")
            IN  /\ clearSelectionsWithoutConfirm
                /\ verifyInFlight' = verifyInFlight \cup forWarehouse \cup forDestinations
                /\ nVerify' = nVerify + Cardinality(forWarehouse)
                                  + Len(preset.destinations)
                /\ lastApply' = [preset |-> preset, rejected |-> FALSE]
       ELSE UNCHANGED << warehouse, destinations, destinationMarkers, verifyInFlight,
                         nVerify, lastApply >>
    /\ lastEvent' = Event("applySelectedPresetResponse", outcome)
    /\ UNCHANGED << locationMode, nPresets >>
    /\ UNCHANGED << vrpVars, checkpointVars >>

InitMapPicker ==
    /\ vrpTestingInit
    /\ checkpointsInit(FALSE)
    /\ mapPickerInit

NextMapPicker ==
    \/ \E mode \in { "warehouse", "destination" } : setLocationMode(mode)
    \/ \E latlng \in Points : pickerMapClick(latlng)
    \/ \E req \in verifyInFlight, o \in VerifyOutcomes : verifyLocationResponse(req, o)
    \/ \E index \in 0 .. Len(destinations) - 1 : removeDestination(index)
    \/ \E confirmed \in BOOLEAN : clearSelections(confirmed)
    \/ \E preset \in SavedPresets : applySelectedPreset(preset.name)
    \/ \E req \in presetInFlight, o \in Outcomes, preset \in SavedPresets :
          applySelectedPresetResponse(req, o, preset)

SpecMapPicker == InitMapPicker /\ [][NextMapPicker]_vars

(* ------------------------------------------------ the claims: the map picker *)

C30_PresetAppliedInOrder ==
    (/\ lastApply # NULL
     /\ ~lastApply.rejected
     /\ verifyInFlight = {}
     /\ presetInFlight = {}) =>
        destinations = lastApply.preset.destinations

====
